---- MODULE Spec2Model ----
(***************************************************************************)
(* A model of the sbrk-based allocator of src/main.c: malloc, free,        *)
(* calloc, realloc, the first-fit search get_free_block, the block         *)
(* registry (head, tail, the headers' size / is_free / next) and the       *)
(* global mutex global_malloc_lock, called by several threads.             *)
(*                                                                         *)
(* Every thread runs the code of the function it called one step at a      *)
(* time; pc[t] is the thread's position in that code.  The steps inside    *)
(* one critical section that touch nothing but the registry are taken      *)
(* together where no other thread could observe the difference.            *)
(*                                                                         *)
(* mem holds the payload bytes of the region; the headers are in blocks.   *)
(* sbrk hands out new bytes with values from fill, and the bytes that      *)
(* a shrink gives back are followed no longer.                             *)
(*                                                                         *)
(* global_malloc_lock has static storage and no initializer; the model     *)
(* takes the zero-filled object for an unlocked default mutex, which is    *)
(* what the Linux C libraries make of it.                                  *)
(***************************************************************************)
EXTENDS Integers, FiniteSets, Sequences, TLC

\* ------------------------------------------------------------------ bounds
NThreads == 2        \* number of threads calling the allocator
MaxSize == 2         \* largest size (and count) a caller passes
MaxBlocks == 3       \* the environment lets the region hold this many blocks of MaxSize
InitBrk == 32        \* program break before the first call
SizeBits == 7        \* width of size_t in the model (scaled down)
MaxByte == 1         \* largest value a caller writes into a byte of a payload

\* ------------------------------------------------------- program constants
NULL == 0
HeaderSize == 16     \* sizeof(header_t) where size_t and pointers have 4 bytes (ALIGH pads it)

Threads == 1..NThreads
SizeMod == 2 ^ SizeBits
MaxBrk == InitBrk + MaxBlocks * (HeaderSize + MaxSize)
Sizes == 0..MaxSize
Addrs == InitBrk..(MaxBrk - 1)
Bytes == 0..MaxByte

VARIABLES
    head, tail,      \* header_t *head, *tail
    blocks,          \* the headers in the region: header address -> [size, is_free, next]
    brk,             \* the program break (what sbrk(0) returns)
    lock,            \* global_malloc_lock: NULL when free, else the owning thread
    pc,              \* position of every thread in the code
    op,              \* the public function every thread called
    size,            \* malloc's parameter size
    block,           \* free's / realloc's parameter block
    header,          \* malloc's and free's local header
    curr,            \* get_free_block's curr, free's tmp
    ret,             \* value returned by the last malloc / calloc / realloc
    held,            \* the payload addresses every thread got and has not released
    exitp,           \* the path on which the thread's last call returned
    pre,             \* the registry and the break when the lock was acquired
    fresh,           \* the last allocate call that returned a block, until another call follows
    mem,             \* the bytes of the region: address -> byte
    saved,           \* the bytes of realloc's block when realloc was called, until the caller goes on
    wide,            \* the two sizes that the caller of the wide specification passes
    fill             \* the values the environment may leave in the bytes it hands out

vars == <<head, tail, blocks, brk, lock, pc, op, size, block, header, curr, ret,
          held, exitp, pre, fresh, mem, saved, wide, fill>>

NoBlocks == [a \in {} |-> NULL]
NoPre == [head |-> NULL, tail |-> NULL, blocks |-> NoBlocks, brk |-> NULL]
NoFresh == [thread |-> NULL, payload |-> NULL, brk |-> NULL, only |-> FALSE, grown |-> FALSE]

\* (void *)(header + 1) and (header_t *)block - 1
Payload(h) == h + HeaderSize
HeaderOf(b) == b - HeaderSize

\* size_t arithmetic, and the conversion of a size_t to sbrk's intptr_t
Wrap(x) == x % SizeMod
ToSigned(x) == IF x >= SizeMod \div 2 THEN x - SizeMod ELSE x

\* ------------------------------------------------------------------- Init
\* the state of the allocator and of the threads before the first call
Start ==
    /\ head = NULL
    /\ tail = NULL
    /\ blocks = NoBlocks
    /\ brk = InitBrk
    /\ lock = NULL
    /\ pc = [t \in Threads |-> "idle"]
    /\ op = [t \in Threads |-> "none"]
    /\ size = [t \in Threads |-> 0]
    /\ block = [t \in Threads |-> NULL]
    /\ header = [t \in Threads |-> NULL]
    /\ curr = [t \in Threads |-> NULL]
    /\ ret = [t \in Threads |-> NULL]
    /\ held = [t \in Threads |-> {}]
    /\ exitp = [t \in Threads |-> "none"]
    /\ pre = NoPre
    /\ fresh = NoFresh
    /\ mem = [a \in Addrs |-> 0]
    /\ saved = [t \in Threads |-> <<>>]

Init == Start /\ wide = <<0, 0>> /\ fill = {0}

\* ------------------------------------------------- the mutex and the break
Snapshot == [head |-> head, tail |-> tail, blocks |-> blocks, brk |-> brk]

\* a lock that does not wait for its owner to release it
AcquireNoWait(t) ==
    /\ lock' = t
    /\ pre' = Snapshot

\* pthread_mutex_lock: the caller gets the mutex only when no thread owns it
Acquire(t) ==
    /\ lock = NULL
    /\ lock' = t
    /\ pre' = Snapshot

\* pthread_mutex_unlock
Release(t) ==
    /\ lock' = NULL
    /\ pre' = NoPre

\* sbrk(inc) succeeds when the environment has the room; it returns the old break
SbrkFits(inc) == brk + inc >= InitBrk /\ brk + inc <= MaxBrk

\* the bytes that are still inside the region when the break is at b; the bytes
\* given back are followed no longer
Kept(m, b) == [a \in Addrs |-> IF a < b THEN m[a] ELSE 0]

\* the headers that are still inside the region when the break is at b
Inside(bs, b) == [a \in {x \in DOMAIN bs : x < b} |-> bs[a]]

\* ------------------------------------------------------ returns to callers
\* the public function returns r; the thread is back in its caller at "done"
Return(t, r, label, h) ==
    /\ pc' = [pc EXCEPT ![t] = "done"]
    /\ op' = [op EXCEPT ![t] = "none"]
    /\ size' = [size EXCEPT ![t] = 0]
    /\ block' = [block EXCEPT ![t] = NULL]
    /\ header' = [header EXCEPT ![t] = NULL]
    /\ curr' = [curr EXCEPT ![t] = NULL]
    /\ ret' = [ret EXCEPT ![t] = r]
    /\ held' = [held EXCEPT ![t] = h]
    /\ exitp' = [exitp EXCEPT ![t] = label]
    /\ UNCHANGED saved

\* a return into a realloc that forgets the test of line 148
MallocExitNoTest(t, o, r, label) ==
    IF o = "malloc" \/ (o = "calloc" /\ r = NULL)
    THEN Return(t, r, label, IF r = NULL THEN held[t] ELSE held[t] \cup {r})
    ELSE /\ pc' = [pc EXCEPT ![t] = IF o = "calloc" THEN "c_memset" ELSE "r_copy"]
         /\ op' = [op EXCEPT ![t] = o]
         /\ header' = [header EXCEPT ![t] = NULL]
         /\ curr' = [curr EXCEPT ![t] = NULL]
         /\ ret' = [ret EXCEPT ![t] = r]
         /\ held' = [held EXCEPT ![t] = held[t] \cup ({r} \ {NULL})]
         /\ exitp' = [exitp EXCEPT ![t] = label]
         /\ UNCHANGED <<size, block, saved>>

\* malloc returns r to the function o that called it
MallocExit(t, o, r, label) ==
    IF o = "malloc" \/ r = NULL
    THEN Return(t, r, label, IF r = NULL THEN held[t] ELSE held[t] \cup {r})
    ELSE /\ pc' = [pc EXCEPT ![t] = IF o = "calloc" THEN "c_memset" ELSE "r_copy"]
         /\ op' = [op EXCEPT ![t] = o]
         /\ header' = [header EXCEPT ![t] = NULL]
         /\ curr' = [curr EXCEPT ![t] = NULL]
         /\ ret' = [ret EXCEPT ![t] = r]
         /\ held' = [held EXCEPT ![t] = held[t] \cup {r}]
         /\ exitp' = [exitp EXCEPT ![t] = label]
         /\ UNCHANGED <<size, block, saved>>

\* an entry that forgets the test of line 33
MallocEntryNoTest(t, o, s) ==
    /\ pc' = [pc EXCEPT ![t] = "m_lock"]
    /\ op' = [op EXCEPT ![t] = o]
    /\ size' = [size EXCEPT ![t] = s]
    /\ UNCHANGED <<block, header, curr, ret, held, exitp, saved>>

\* malloc(s) called by the function o: line 33 returns at once for a zero size
MallocEntry(t, o, s) ==
    IF s = 0
    THEN MallocExit(t, o, NULL, "zero")
    ELSE /\ pc' = [pc EXCEPT ![t] = "m_lock"]
         /\ op' = [op EXCEPT ![t] = o]
         /\ size' = [size EXCEPT ![t] = s]
         /\ UNCHANGED <<block, header, curr, ret, held, exitp, saved>>

\* free returns to the function that called it
FreeExit(t, label) ==
    Return(t, IF op[t] = "realloc" THEN ret[t] ELSE NULL, label, held[t])

\* free(b) called by the function o: line 85 returns at once for NULL
FreeEntry(t, o, b) ==
    IF b = NULL
    THEN Return(t, NULL, "absent", held[t])
    ELSE /\ pc' = [pc EXCEPT ![t] = "f_lock"]
         /\ op' = [op EXCEPT ![t] = o]
         /\ block' = [block EXCEPT ![t] = b]
         /\ held' = [held EXCEPT ![t] = held[t] \ {b}]
         /\ UNCHANGED <<size, header, curr, ret, exitp, saved>>

\* the allocate call that has just returned payload p: the break before it, whether
\* p's block is the only block of the registry, and whether the call grew the region
Fresh(t, o, p, only, grown) ==
    IF o = "malloc"
    THEN [thread |-> t, payload |-> p, brk |-> pre.brk, only |-> only, grown |-> grown]
    ELSE NoFresh

\* ----------------------------------------------------------------- malloc
\* a test that forgets is_free, and one that wants a strictly larger block
FitsIgnoresFree(b, s) == b.size >= s
FitsStrictly(b, s) == b.is_free /\ b.size > s

\* the test of get_free_block's loop, line 71
Fits(b, s) == b.is_free /\ b.size >= s

\* a total that forgets the header
TotalSizeNoHeader(s) == Wrap(s)

\* total_size = sizeof(header_t) + size, line 47
TotalSize(s) == Wrap(HeaderSize + s)

\* an appending that forgets line 62
AppendBlockUnlinked(h, s) ==
    [a \in DOMAIN blocks \cup {h} |->
        IF a = h THEN [size |-> s, is_free |-> FALSE, next |-> NULL]
        ELSE blocks[a]]

\* the registry after lines 54-63 have put a new block of s bytes at address h
AppendBlock(h, s) ==
    [a \in DOMAIN blocks \cup {h} |->
        IF a = h THEN [size |-> s, is_free |-> FALSE, next |-> NULL]
        ELSE IF a = tail THEN [blocks[a] EXCEPT !.next = h]
        ELSE blocks[a]]

CallMalloc(t, s) ==
    /\ pc[t] = "idle"
    /\ MallocEntry(t, "malloc", s)
    /\ UNCHANGED <<head, tail, blocks, brk, lock, pre, fresh>>
    /\ UNCHANGED <<mem, wide, fill>>

\* line 39, and the first line of get_free_block
MallocLock(t) ==
    /\ pc[t] = "m_lock"
    /\ Acquire(t)
    /\ pc' = [pc EXCEPT ![t] = "m_search"]
    /\ curr' = [curr EXCEPT ![t] = head]
    /\ fresh' = NoFresh
    /\ UNCHANGED <<head, tail, blocks, brk, op, size, block, header, ret, held, exitp>>
    /\ UNCHANGED <<mem, saved, wide, fill>>

\* a loop that forgets line 73 and looks at the same block for ever
MallocSearchStuck(t) ==
    /\ pc[t] = "m_search"
    /\ IF curr[t] = NULL
       THEN /\ pc' = [pc EXCEPT ![t] = "m_grow"]
            /\ UNCHANGED <<header, curr>>
       ELSE IF Fits(blocks[curr[t]], size[t])
       THEN /\ pc' = [pc EXCEPT ![t] = "m_hit"]
            /\ header' = [header EXCEPT ![t] = curr[t]]
            /\ UNCHANGED curr
       ELSE UNCHANGED <<pc, header, curr>>
    /\ UNCHANGED <<head, tail, blocks, brk, lock, op, size, block, ret, held, exitp,
                   pre, fresh>>
    /\ UNCHANGED <<mem, saved, wide, fill>>

\* one turn of get_free_block's loop, lines 70-75
MallocSearch(t) ==
    /\ pc[t] = "m_search"
    /\ IF curr[t] = NULL
       THEN /\ pc' = [pc EXCEPT ![t] = "m_grow"]
            /\ UNCHANGED <<header, curr>>
       ELSE IF Fits(blocks[curr[t]], size[t])
       THEN /\ pc' = [pc EXCEPT ![t] = "m_hit"]
            /\ header' = [header EXCEPT ![t] = curr[t]]
            /\ UNCHANGED curr
       ELSE /\ curr' = [curr EXCEPT ![t] = blocks[curr[t]].next]
            /\ UNCHANGED <<pc, header>>
    /\ UNCHANGED <<head, tail, blocks, brk, lock, op, size, block, ret, held, exitp,
                   pre, fresh>>
    /\ UNCHANGED <<mem, saved, wide, fill>>

\* lines 41-45: the block found is taken
MallocHit(t) ==
    /\ pc[t] = "m_hit"
    /\ blocks' = [blocks EXCEPT ![header[t]].is_free = FALSE]
    /\ Release(t)
    /\ fresh' = Fresh(t, op[t], Payload(header[t]), head = tail, FALSE)
    /\ MallocExit(t, op[t], Payload(header[t]), "hit")
    /\ UNCHANGED <<head, tail, brk>>
    /\ UNCHANGED <<mem, wide, fill>>

\* a failure path that returns without line 50
MallocGrowFailKeepsLock(t) ==
    /\ pc[t] = "m_grow"
    /\ MallocExit(t, op[t], NULL, "oom")
    /\ UNCHANGED <<head, tail, blocks, brk, lock, pre, fresh>>
    /\ UNCHANGED <<mem, wide, fill>>

\* lines 47-52: the environment refuses the extension (it may at any time)
MallocGrowFail(t) ==
    /\ pc[t] = "m_grow"
    /\ Release(t)
    /\ MallocExit(t, op[t], NULL, "oom")
    /\ UNCHANGED <<head, tail, blocks, brk, fresh>>
    /\ UNCHANGED <<mem, wide, fill>>

\* the memory after sbrk has handed out new bytes with the values f
Handed(f) == [a \in Addrs |-> IF a \in DOMAIN f THEN f[a] ELSE mem[a]]

\* the bytes of the new payload of s bytes behind the header at h
NewBytes(h, s) == {a \in Addrs : a >= Payload(h) /\ a < Payload(h) + s}

\* lines 47-65: the region is extended and the new block appended
MallocGrowOk(t) ==
    /\ pc[t] = "m_grow"
    /\ SbrkFits(ToSigned(TotalSize(size[t])))
    /\ brk' = brk + ToSigned(TotalSize(size[t]))
    /\ \E f \in [NewBytes(brk, size[t]) -> fill] : mem' = Handed(f)
    /\ blocks' = AppendBlock(brk, size[t])
    /\ head' = IF head = NULL THEN brk ELSE head
    /\ tail' = brk
    /\ Release(t)
    /\ fresh' = Fresh(t, op[t], Payload(brk), head = NULL, TRUE)
    /\ MallocExit(t, op[t], Payload(brk), "grown")
    /\ UNCHANGED <<wide, fill>>

\* ------------------------------------------------------------------- free
\* the test of line 93: the block ends where the region ends
AtEnd(b, h) == b + blocks[h].size = brk

\* a shrink that gives back the payload and keeps the header
ShrinkByPayload(h) == ToSigned(Wrap(0 - blocks[h].size))

\* a shrink that also gives back the new tail when that block is free
ShrinkByCascade(h) ==
    IF tail # NULL /\ blocks[tail].is_free
    THEN ToSigned(Wrap(0 - HeaderSize - blocks[h].size - HeaderSize - blocks[tail].size))
    ELSE ToSigned(Wrap(0 - HeaderSize - blocks[h].size))

\* the argument of the sbrk call of line 107
ShrinkBy(h) == ToSigned(Wrap(0 - HeaderSize - blocks[h].size))

CallFree(t, b) ==
    /\ pc[t] = "idle"
    /\ FreeEntry(t, "free", b)
    /\ UNCHANGED <<head, tail, blocks, brk, lock, pre, fresh>>
    /\ UNCHANGED <<mem, wide, fill>>

\* lines 88-91
FreeLock(t) ==
    /\ pc[t] = "f_lock"
    /\ Acquire(t)
    /\ pc' = [pc EXCEPT ![t] = "f_check"]
    /\ header' = [header EXCEPT ![t] = HeaderOf(block[t])]
    /\ fresh' = IF op[t] = "free" /\ fresh.payload = block[t] THEN fresh ELSE NoFresh
    /\ UNCHANGED <<head, tail, blocks, brk, op, size, block, curr, ret, held, exitp>>
    /\ UNCHANGED <<mem, saved, wide, fill>>

\* a reset that forgets head
FreeOnlyKeepsHead(t) ==
    /\ pc[t] = "f_check"
    /\ AtEnd(block[t], header[t])
    /\ head = tail
    /\ tail' = NULL
    /\ pc' = [pc EXCEPT ![t] = "f_shrink"]
    /\ UNCHANGED <<head, blocks, brk, lock, op, size, block, header, curr, ret, held,
                   exitp, pre, fresh>>
    /\ UNCHANGED <<mem, saved, wide, fill>>

\* lines 93-95: the block at the end of the region is the only block
FreeOnly(t) ==
    /\ pc[t] = "f_check"
    /\ AtEnd(block[t], header[t])
    /\ head = tail
    /\ head' = NULL
    /\ tail' = NULL
    /\ pc' = [pc EXCEPT ![t] = "f_shrink"]
    /\ UNCHANGED <<blocks, brk, lock, op, size, block, header, curr, ret, held, exitp,
                   pre, fresh>>
    /\ UNCHANGED <<mem, saved, wide, fill>>

\* lines 93-97: the block at the end is not the only one, the scan starts
FreeScanStart(t) ==
    /\ pc[t] = "f_check"
    /\ AtEnd(block[t], header[t])
    /\ head # tail
    /\ curr' = [curr EXCEPT ![t] = head]
    /\ pc' = [pc EXCEPT ![t] = "f_scan"]
    /\ UNCHANGED <<head, tail, blocks, brk, lock, op, size, block, header, ret, held,
                   exitp, pre, fresh>>
    /\ UNCHANGED <<mem, saved, wide, fill>>

\* an unlinking that forgets line 100
UnlinkKeepsNext(a) == blocks

\* the registry after lines 99-102 have seen the block at address a
Unlink(a) ==
    IF blocks[a].next = tail THEN [blocks EXCEPT ![a].next = NULL] ELSE blocks

\* one turn of the loop of lines 98-104
FreeScan(t) ==
    /\ pc[t] = "f_scan"
    /\ IF curr[t] = NULL
       THEN /\ pc' = [pc EXCEPT ![t] = "f_shrink"]
            /\ UNCHANGED <<blocks, tail, curr>>
       ELSE /\ blocks' = Unlink(curr[t])
            /\ tail' = IF blocks[curr[t]].next = tail THEN curr[t] ELSE tail
            /\ curr' = [curr EXCEPT ![t] = blocks'[curr[t]].next]
            /\ UNCHANGED pc
    /\ UNCHANGED <<head, brk, lock, op, size, block, header, ret, held, exitp, pre, fresh>>
    /\ UNCHANGED <<mem, saved, wide, fill>>

\* lines 107-109: the space goes back to the environment
FreeShrink(t) ==
    /\ pc[t] = "f_shrink"
    /\ brk' = brk + ShrinkBy(header[t])
    /\ blocks' = Inside(blocks, brk')
    /\ Release(t)
    /\ fresh' = NoFresh
    /\ mem' = Kept(mem, brk')
    /\ FreeExit(t, "shrunk")
    /\ UNCHANGED <<head, tail>>
    /\ UNCHANGED <<wide, fill>>

\* a marking that also cuts the block's link to its successor
FreeMarkCutsNext(t) ==
    /\ pc[t] = "f_check"
    /\ ~AtEnd(block[t], header[t])
    /\ blocks' = [blocks EXCEPT ![header[t]] = [@ EXCEPT !.is_free = TRUE, !.next = NULL]]
    /\ Release(t)
    /\ fresh' = NoFresh
    /\ FreeExit(t, "marked")
    /\ UNCHANGED <<head, tail, brk>>
    /\ UNCHANGED <<mem, wide, fill>>

\* lines 113-114: a block in the middle of the region is marked free
FreeMark(t) ==
    /\ pc[t] = "f_check"
    /\ ~AtEnd(block[t], header[t])
    /\ blocks' = [blocks EXCEPT ![header[t]].is_free = TRUE]
    /\ Release(t)
    /\ fresh' = NoFresh
    /\ FreeExit(t, "marked")
    /\ UNCHANGED <<head, tail, brk>>
    /\ UNCHANGED <<mem, wide, fill>>

\* ----------------------------------------------------------------- calloc
\* a test that takes a wrapped product for one that is smaller than the count
OverflowedBelowCount(num, nsize) == Wrap(num * nsize) < num

\* the test of line 127 on the product computed by line 126
Overflowed(num, nsize) == nsize # Wrap(num * nsize) \div num

CallCalloc(t, num, nsize) ==
    /\ pc[t] = "idle"
    /\ IF num = 0 \/ nsize = 0
       THEN Return(t, NULL, "zero", held[t])
       ELSE IF Overflowed(num, nsize)
       THEN Return(t, NULL, "overflow", held[t])
       ELSE MallocEntry(t, "calloc", Wrap(num * nsize))
    /\ UNCHANGED <<head, tail, blocks, brk, lock, pre, fresh>>
    /\ UNCHANGED <<mem, wide, fill>>

\* the memory after memset(dst, 0, n), line 132
Memset(dst, n) ==
    [a \in Addrs |-> IF a >= dst /\ a < dst + n THEN 0 ELSE mem[a]]

\* lines 132-133
CallocMemset(t) ==
    /\ pc[t] = "c_memset"
    /\ mem' = Memset(ret[t], size[t])
    /\ Return(t, ret[t], exitp[t], held[t])
    /\ UNCHANGED <<head, tail, blocks, brk, lock, pre, fresh, wide, fill>>

\* ---------------------------------------------------------------- realloc
\* the bytes of the payload b, as many as its header's size says
Content(b) == [i \in 1..blocks[HeaderOf(b)].size |-> mem[b + i - 1]]

\* a copy that stops one byte early
MemcpyShort(dst, src, n) ==
    [a \in Addrs |-> IF a >= dst /\ a < dst + n - 1 THEN mem[src + (a - dst)] ELSE mem[a]]

\* the memory after memcpy(dst, src, n), line 149
Memcpy(dst, src, n) ==
    [a \in Addrs |-> IF a >= dst /\ a < dst + n THEN mem[src + (a - dst)] ELSE mem[a]]

CallRealloc(t, b, s) ==
    /\ pc[t] = "idle"
    /\ IF b = NULL \/ s = 0
       THEN Return(t, NULL, "invalid", held[t])
       ELSE /\ pc' = [pc EXCEPT ![t] = "r_check"]
            /\ op' = [op EXCEPT ![t] = "realloc"]
            /\ block' = [block EXCEPT ![t] = b]
            /\ size' = [size EXCEPT ![t] = s]
            /\ saved' = [saved EXCEPT ![t] = Content(b)]
            /\ UNCHANGED <<header, curr, ret, held, exitp>>
    /\ UNCHANGED <<head, tail, blocks, brk, lock, pre, fresh>>
    /\ UNCHANGED <<mem, wide, fill>>

\* a test that sends an equal size to malloc
ReallocCheckStrict(t) ==
    /\ pc[t] = "r_check"
    /\ IF blocks[HeaderOf(block[t])].size > size[t]
       THEN Return(t, block[t], "same", held[t])
       ELSE MallocEntry(t, "realloc", size[t])
    /\ UNCHANGED <<head, tail, blocks, brk, lock, pre, fresh>>
    /\ UNCHANGED <<mem, wide, fill>>

\* lines 144-147: the header's size is read, the mutex is not taken
ReallocCheck(t) ==
    /\ pc[t] = "r_check"
    /\ IF blocks[HeaderOf(block[t])].size >= size[t]
       THEN Return(t, block[t], "same", held[t])
       ELSE MallocEntry(t, "realloc", size[t])
    /\ UNCHANGED <<head, tail, blocks, brk, lock, pre, fresh>>
    /\ UNCHANGED <<mem, wide, fill>>

\* lines 149-150: the copy, then free(block)
ReallocCopy(t) ==
    /\ pc[t] = "r_copy"
    /\ mem' = Memcpy(ret[t], block[t], blocks[HeaderOf(block[t])].size)
    /\ FreeEntry(t, "realloc", block[t])
    /\ UNCHANGED <<head, tail, blocks, brk, lock, pre, fresh, wide, fill>>

\* ----------------------------------------------------------------- caller
\* the calling thread goes on with the value it got
Resume(t) ==
    /\ pc[t] = "done"
    /\ pc' = [pc EXCEPT ![t] = "idle"]
    /\ ret' = [ret EXCEPT ![t] = NULL]
    /\ exitp' = [exitp EXCEPT ![t] = "none"]
    /\ saved' = [saved EXCEPT ![t] = <<>>]
    /\ UNCHANGED <<head, tail, blocks, brk, lock, op, size, block, header, curr, held,
                   pre, fresh>>
    /\ UNCHANGED <<mem, wide, fill>>

\* the calling thread writes the byte v at offset i of a payload it holds
Write(t, p, i, v) ==
    /\ pc[t] = "idle"
    /\ p \in held[t]
    /\ i < blocks[HeaderOf(p)].size
    /\ mem' = [mem EXCEPT ![p + i] = v]
    /\ UNCHANGED <<head, tail, blocks, brk, lock, pc, op, size, block, header, curr, ret,
                   held, exitp, pre, fresh, saved, wide, fill>>

\* ------------------------------------------------------------------- Next
\* the steps of thread t, its calls with the sizes of S included
Run(t, S) ==
    \/ \E s \in S : CallMalloc(t, s)
    \/ MallocLock(t)
    \/ MallocSearch(t)
    \/ MallocHit(t)
    \/ MallocGrowFail(t)
    \/ MallocGrowOk(t)
    \/ \E b \in held[t] \cup {NULL} : CallFree(t, b)
    \/ FreeLock(t)
    \/ FreeOnly(t)
    \/ FreeScanStart(t)
    \/ FreeScan(t)
    \/ FreeShrink(t)
    \/ FreeMark(t)
    \/ \E num \in S, nsize \in S : CallCalloc(t, num, nsize)
    \/ CallocMemset(t)
    \/ \E b \in held[t] \cup {NULL}, s \in S : CallRealloc(t, b, s)
    \/ ReallocCheck(t)
    \/ ReallocCopy(t)
    \/ Resume(t)

Next == \E t \in Threads : Run(t, Sizes)

Spec == Init /\ [][Next]_vars

\* ------------------------------------------- one caller that writes bytes
\* Thread 1 alone calls the four functions and writes into the payloads it holds.
DataNext ==
    \/ Run(1, Sizes)
    \/ \E p \in held[1], i \in 0..(MaxSize * MaxSize - 1), v \in Bytes : Write(1, p, i, v)

DataInit == Start /\ wide = <<0, 0>> /\ fill = Bytes

DataSpec == DataInit /\ [][DataNext]_vars

\* ------------------------------------------------ one caller, every size
\* Thread 1 alone calls malloc, calloc and free, with two sizes taken from the
\* whole range of size_t.
WideInit == Start /\ wide \in (0..(SizeMod - 1)) \X (0..(SizeMod - 1)) /\ fill = {0}

\* a header or a payload lies beyond the break: line 55 has written outside the
\* region and what the program does from there on is undefined
Overrun == \E a \in DOMAIN blocks : a + HeaderSize + blocks[a].size > brk

WideNext ==
    /\ ~Overrun
    /\ \/ CallMalloc(1, wide[1])
       \/ CallCalloc(1, wide[1], wide[2])
       \/ MallocLock(1)
       \/ MallocSearch(1)
       \/ MallocHit(1)
       \/ MallocGrowFail(1)
       \/ MallocGrowOk(1)
       \/ \E b \in held[1] : CallFree(1, b)
       \/ FreeLock(1)
       \/ FreeOnly(1)
       \/ FreeScanStart(1)
       \/ FreeScan(1)
       \/ FreeShrink(1)
       \/ FreeMark(1)
       \/ CallocMemset(1)
       \/ Resume(1)

WideSpec == WideInit /\ [][WideNext]_vars

\* ---------------------------------------------------- fair specification
\* The steps of thread t inside the function it called.  Callers are free to
\* stop calling, so the Call actions and Resume are not among them.
Step(t) ==
    \/ MallocLock(t) \/ MallocSearch(t) \/ MallocHit(t) \/ MallocGrowFail(t)
    \/ MallocGrowOk(t)
    \/ FreeLock(t) \/ FreeOnly(t) \/ FreeScanStart(t) \/ FreeScan(t) \/ FreeShrink(t)
    \/ FreeMark(t)
    \/ CallocMemset(t) \/ ReallocCheck(t) \/ ReallocCopy(t)

\* Fair scheduling: a thread whose next step is possible again and again takes
\* it.  For a thread waiting in pthread_mutex_lock this says that it gets the
\* mutex if the mutex is released again and again; everywhere else the step is
\* possible all the time and the condition is plain weak fairness.
FairSpec == Spec /\ \A t \in Threads : SF_vars(Step(t))

\* ------------------------------------------------- notions of the claims
\* the headers met from h by following next, at most n of them
RECURSIVE Chain(_, _, _)
Chain(bs, h, n) ==
    IF h = NULL \/ n = 0 \/ h \notin DOMAIN bs THEN <<>>
    ELSE <<h>> \o Chain(bs, bs[h].next, n - 1)

\* the registry in order from head
Registry == Chain(blocks, head, Cardinality(DOMAIN blocks) + 1)
RegistryOf(r) == Chain(r.blocks, r.head, Cardinality(DOMAIN r.blocks) + 1)

\* the payloads the threads hold
AllHeld == UNION {held[t] : t \in Threads}

\* the elements of the sequence s
Members(s) == {s[i] : i \in DOMAIN s}

\* the addresses of the block of payload p, header included
Range(p) == HeaderOf(p) .. (p + blocks[HeaderOf(p)].size - 1)

\* the pcs between pthread_mutex_lock and pthread_mutex_unlock
InGuard == {"m_search", "m_hit", "m_grow", "f_check", "f_scan", "f_shrink"}

\* thread t is at a line that reads or writes head, tail or a header field
Touches(t) == pc[t] \in InGuard \cup {"r_check", "r_copy"}

\* the step with which malloc, resp. free, ends
MallocDone(t) == pc[t] \in {"m_hit", "m_grow"} /\ pc'[t] # pc[t]
FreeDone(t) == pc[t] \in {"f_check", "f_shrink"} /\ pc'[t] = "done"

\* no call is in progress
Quiet == \A t \in Threads : pc[t] \in {"idle", "done"}

\* ------------------------------------------------------------------ claims

\* C1: whatever the threads interleave, every payload a thread holds is the
\* payload of exactly one block of the registry reached from head, that block is
\* not free, no payload is held twice, and the blocks of two held payloads
\* (header and payload bytes) do not overlap.
C1_RegistryConsistent ==
    /\ \A p \in AllHeld :
          /\ Cardinality({i \in 1..Len(Registry) : Payload(Registry[i]) = p}) = 1
          /\ ~blocks[HeaderOf(p)].is_free
    /\ \A t, u \in Threads : t # u => held[t] \cap held[u] = {}
    /\ \A p, q \in AllHeld : p # q => Range(p) \cap Range(q) = {}

\* both threads hold a block they got from allocate, and a third block is free
C1_Witness ==
    /\ \A t \in Threads : held[t] # {}
    /\ \E a \in DOMAIN blocks : blocks[a].is_free

\* C2: at most one thread is between pthread_mutex_lock and
\* pthread_mutex_unlock, whichever of the four functions the threads called.
C2_MutualExclusion ==
    Cardinality({t \in Threads : pc[t] \in InGuard}) <= 1

\* a thread inside calloc's malloc holds the guard while realloc's free waits
C2_Witness ==
    \E t, u \in Threads :
        /\ pc[t] \in InGuard /\ op[t] = "calloc"
        /\ pc[u] = "f_lock" /\ op[u] = "realloc"

\* C3: a thread that is about to read or write head, tail or a field of a
\* header owns the guard.
C3_GuardedAccess ==
    \A t \in Threads : Touches(t) => lock = t

\* C4: a thread that has returned from a call does not own the guard, and a
\* thread that is about to lock the guard does not own it already.
C4_GuardReleased ==
    \A t \in Threads : pc[t] \in {"done", "idle", "m_lock", "f_lock"} => lock # t

\* one thread is back from a refused extension, the other from a tail shrink
C4_Witness ==
    \E t, u \in Threads :
        /\ pc[t] = "done" /\ exitp[t] = "oom"
        /\ pc[u] = "done" /\ exitp[u] = "shrunk"
        /\ lock = NULL

\* C5: under the fair specification every call that has been made returns.
C5_EveryCallReturns ==
    \A t \in Threads : (pc[t] \notin {"idle", "done"}) ~> (pc[t] = "done")

\* a resize waits for the guard while the other thread scans for the tail's
\* predecessor in a registry of three blocks
C5_Witness ==
    \E t, u \in Threads :
        /\ pc[t] = "f_scan" /\ curr[t] # NULL /\ curr[t] # head
        /\ pc[u] = "m_lock" /\ op[u] = "realloc"

\* the first block in registry order that is free and has room for s bytes
FirstFree(s) ==
    LET R == Registry
        I == {i \in 1..Len(R) : blocks[R[i]].is_free = TRUE /\ blocks[R[i]].size >= s}
    IN  IF I = {} THEN NULL ELSE R[CHOOSE i \in I : \A j \in I : i <= j]

\* C6: when the registry has a free block with room for the requested size,
\* malloc returns the payload of the first such block in registry order, clears
\* that block's is_free and changes nothing else: no size, no next, no other
\* block, not head, not tail, not the break.
C6_FirstFitReuse ==
    [][\A t \in Threads :
         (MallocDone(t) /\ FirstFree(size[t]) # NULL) =>
            /\ ret'[t] = Payload(FirstFree(size[t]))
            /\ blocks' = [blocks EXCEPT ![FirstFree(size[t])].is_free = FALSE]
            /\ head' = head /\ tail' = tail /\ brk' = brk]_vars

\* a call is back with a reused block that is not the first free block of the
\* registry: head is still free, it was too small
C6_Witness ==
    \E t \in Threads :
        /\ pc[t] = "done" /\ exitp[t] = "hit"
        /\ HeaderOf(ret[t]) # head
        /\ blocks[head].is_free

\* the release that immediately follows the allocate call that returned the
\* only block of the registry ends
RoundTripEnds(t) ==
    /\ FreeDone(t)
    /\ op[t] = "free"
    /\ fresh.payload = block[t]
    /\ fresh.only

\* C7 as stated: allocate(s) returns the only block of the registry, that block
\* is released at once, and the break is back at its value before the allocate.
C7_RoundTrip ==
    [][\A t \in Threads : RoundTripEnds(t) => brk' = fresh.brk]_vars

\* C7 amended: the break is back at its value before the allocate call when that
\* call grew the region; when it reused the only block of the registry, the
\* release puts the break at that block's header, below the value before the call.
C7_RoundTripGrown ==
    [][\A t \in Threads :
         RoundTripEnds(t) =>
            IF fresh.grown
            THEN brk' = fresh.brk
            ELSE brk' = HeaderOf(block[t]) /\ brk' < fresh.brk]_vars

\* the release of a block that allocate has just made in an empty region is at
\* its last step
C7_Witness ==
    \E t \in Threads :
        /\ pc[t] = "f_shrink" /\ op[t] = "free"
        /\ fresh.payload = block[t] /\ fresh.only /\ fresh.grown

\* C8 as stated: with no call in progress and no payload held, head and tail are
\* empty and the break has its initial value.
C8_EmptyWhenNoLive ==
    (Quiet /\ AllHeld = {}) => (head = NULL /\ tail = NULL /\ brk = InitBrk)

\* C8 amended: with no call in progress and no payload held, every block left in
\* the region is free, and head and tail are empty and the break has its initial
\* value exactly when no block is left.
C8_EmptyWhenNoBlockLeft ==
    (Quiet /\ AllHeld = {}) =>
        /\ \A a \in DOMAIN blocks : blocks[a].is_free
        /\ (DOMAIN blocks = {}) <=> (head = NULL /\ tail = NULL /\ brk = InitBrk)
        /\ (DOMAIN blocks = {}) <=> (head = NULL \/ tail = NULL \/ brk = InitBrk)

\* the last payload has just been released by a tail shrink and nothing is left
C8_Witness ==
    /\ Quiet /\ AllHeld = {}
    /\ \E t \in Threads : pc[t] = "done" /\ exitp[t] = "shrunk"
    /\ DOMAIN blocks = {}

\* the block whose next is h, in the registry r
Pred(r, h) == CHOOSE a \in DOMAIN r.blocks : r.blocks[a].next = h

\* C9: a release of the block at the end of the region, in a registry of two
\* blocks or more, lowers the break by the header size plus the block's size,
\* makes the block's predecessor the tail with an empty next, and leaves head
\* and every other block as they were.
C9_TailShrink ==
    [][\A t \in Threads :
         (/\ FreeDone(t)
          /\ block[t] + pre.blocks[HeaderOf(block[t])].size = pre.brk
          /\ pre.head # pre.tail) =>
            LET h == HeaderOf(block[t])
                p == Pred(pre, h)
            IN  /\ brk' = pre.brk - (HeaderSize + pre.blocks[h].size)
                /\ tail' = p
                /\ head' = pre.head
                /\ blocks' = [a \in DOMAIN pre.blocks \ {h} |->
                                IF a = p THEN [pre.blocks[a] EXCEPT !.next = NULL]
                                ELSE pre.blocks[a]]]_vars

\* the tail of a registry of three blocks is being released, and the block that
\* has become the tail is live and is released next
C9_Witness ==
    \E t \in Threads :
        /\ pc[t] = "f_shrink"
        /\ Cardinality(DOMAIN pre.blocks) = 3
        /\ tail # pre.tail /\ tail # head
        /\ Payload(tail) \in AllHeld

\* C10: whenever no thread is inside the guard, the block tail ends where the
\* region ends, and an empty registry means the break has its initial value.
C10_TailInvariant ==
    lock = NULL =>
        IF head = NULL
        THEN tail = NULL /\ brk = InitBrk
        ELSE tail # NULL /\ Payload(tail) + blocks[tail].size = brk

\* between two calls the tail is a free block that a shrink has uncovered
C10_Witness ==
    /\ lock = NULL /\ Quiet
    /\ head # NULL /\ head # tail
    /\ blocks[tail].is_free

\* C11: zero-fill allocate with a count and an element size above zero returns
\* the absence sentinel at once, without a call of allocate and with head, tail,
\* the registry and the boundary as they were, exactly when count x size is
\* above 2^w - 1; otherwise it calls allocate with the exact product.
C11_OverflowCheck ==
    [][(CallCalloc(1, wide[1], wide[2]) /\ wide[1] > 0 /\ wide[2] > 0) =>
        IF wide[1] * wide[2] > SizeMod - 1
        THEN /\ pc'[1] = "done" /\ op'[1] = "none"
             /\ ret'[1] = NULL
             /\ UNCHANGED <<head, tail, blocks, brk>>
        ELSE /\ pc'[1] = "m_lock" /\ op'[1] = "calloc"
             /\ size'[1] = wide[1] * wide[2]]_vars

\* a zero-fill allocate has returned because the product wrapped, to a value
\* that is not zero
C11_Witness ==
    /\ pc[1] = "done" /\ exitp[1] = "overflow"
    /\ Wrap(wide[1] * wide[2]) # 0

\* C12: an allocate(s) that misses and whose extension succeeds moves the
\* boundary up by exactly header size + s, and the new block's header and its
\* s payload bytes lie inside the bytes between the old and the new boundary.
C12_ExactGrowth ==
    [][(pc[1] = "m_grow" /\ exitp'[1] = "grown") =>
        /\ brk' = brk + HeaderSize + size[1]
        /\ tail' = brk
        /\ Payload(tail') + blocks'[tail'].size <= brk']_vars

\* C13: when the environment refuses the extension, allocate returns the
\* absence sentinel with head, tail, every header and the boundary as they
\* were and the guard released; a resize that needed the new block returns the
\* absence sentinel too, and its block is still in the registry, not free,
\* with the size and the content it had when resize was called.
C13_FailureAtomicity ==
    [][(pc[1] = "m_grow" /\ exitp'[1] = "oom") =>
        /\ pc'[1] = "done" /\ ret'[1] = NULL
        /\ UNCHANGED <<head, tail, blocks, brk>>
        /\ Snapshot = pre
        /\ lock' = NULL
        /\ op[1] = "realloc" =>
            /\ block[1] \in held'[1]
            /\ HeaderOf(block[1]) \in Members(Registry')
            /\ ~blocks'[HeaderOf(block[1])].is_free
            /\ Len(saved[1]) = blocks'[HeaderOf(block[1])].size
            /\ \A i \in 1..Len(saved[1]) : mem'[block[1] + i - 1] = saved[1][i]]_vars

\* a resize of a block whose content is not all zero has failed
C13_Witness ==
    /\ pc[1] = "done" /\ exitp[1] = "oom" /\ ret[1] = NULL
    /\ \E i \in DOMAIN saved[1] : saved[1][i] # 0

\* the call that thread t makes has an argument that the function refuses
InvalidCall(t) ==
    \/ CallMalloc(t, 0)
    \/ \E n \in Sizes : CallCalloc(t, 0, n) \/ CallCalloc(t, n, 0)
    \/ \E s \in Sizes : CallRealloc(t, NULL, s)
    \/ \E b \in held[t] : CallRealloc(t, b, 0)
    \/ CallFree(t, NULL)

\* C14: allocate(0), zero-fill allocate with a zero count or element size,
\* resize with an absent address or a new size of 0, and release of the absence
\* sentinel return at once and leave head, tail, every header and the boundary
\* as they were; the first three return the absence sentinel, and resize(p, 0)
\* does not release p.
C14_InvalidCallsAreNoOps ==
    [][\A t \in Threads : InvalidCall(t) =>
        /\ pc'[t] = "done"
        /\ ret'[t] = NULL
        /\ UNCHANGED <<head, tail, blocks, brk, lock, held, mem>>]_vars

\* a resize with an absent address or a new size of 0 has returned to a caller
\* that holds a block, while the other thread is inside the guard
C14_Witness ==
    \E t \in Threads :
        /\ pc[t] = "done" /\ exitp[t] = "invalid"
        /\ held[t] # {}
        /\ lock \notin {NULL, t}

\* C15: a resize(p, n) of a live block p to a size n above its size, whose
\* allocation succeeds, returns an address q other than p; q's block has a
\* size of at least n and is not free, the first bytes of q's payload, as many
\* as p had, are the bytes p had when resize was called, and p is live no
\* longer: its block is marked free or a tail shrink has removed it.
C15_ResizeGrowth ==
    [][(FreeDone(1) /\ op[1] = "realloc") =>
        LET p == block[1]
            q == ret'[1]
        IN  /\ q # NULL /\ q # p
            /\ q \in held'[1]
            /\ HeaderOf(q) \in Members(Registry')
            /\ blocks'[HeaderOf(q)].size >= size[1]
            /\ ~blocks'[HeaderOf(q)].is_free
            /\ Len(saved[1]) < size[1]
            /\ \A i \in 1..Len(saved[1]) : mem'[q + i - 1] = saved[1][i]
            /\ p \notin held'[1]
            /\ \/ HeaderOf(p) \notin DOMAIN blocks'
               \/ blocks'[HeaderOf(p)].is_free]_vars

\* a resize has moved bytes that are not all zero to a block found by the
\* search, and the old block has left the registry by a tail shrink
C15_Witness ==
    /\ pc[1] = "done" /\ exitp[1] = "shrunk"
    /\ ret[1] # NULL
    /\ \E i \in DOMAIN saved[1] : saved[1][i] # 0
    /\ \A i \in DOMAIN saved[1] : mem[ret[1] + i - 1] = saved[1][i]

\* C16: a resize(p, n) of a live block p with 0 < n <= the size in p's header
\* returns p itself and leaves head, tail, every header, the boundary and p's
\* content as they were.
C16_ResizeNoShrink ==
    [][(pc[1] = "r_check" /\ pc'[1] # "r_check"
            /\ size[1] <= blocks[HeaderOf(block[1])].size) =>
        /\ pc'[1] = "done"
        /\ ret'[1] = block[1]
        /\ UNCHANGED <<head, tail, blocks, brk, held>>
        /\ Len(saved[1]) = blocks'[HeaderOf(block[1])].size
        /\ \A i \in 1..Len(saved[1]) : mem'[block[1] + i - 1] = saved[1][i]]_vars

\* a resize to the size the block has returned the block, whose bytes are not
\* all zero
C16_Witness ==
    /\ pc[1] = "done" /\ exitp[1] = "same"
    /\ ret[1] \in held[1]
    /\ \E i \in DOMAIN saved[1] : saved[1][i] # 0
    /\ Content(ret[1]) = saved[1]

\* C17: no release removes more than one block: a release of the block at the
\* end of the region removes that block alone and lowers the boundary by header
\* size + that block's size alone, also when its predecessor in the registry is
\* free; the free predecessor stays in the registry, free, as the new tail.
C17_SingleStepShrink ==
    [][\A t \in Threads : FreeDone(t) =>
        LET h == HeaderOf(block[t])
        IN  /\ DOMAIN blocks' \subseteq DOMAIN pre.blocks
            /\ (DOMAIN pre.blocks \ DOMAIN blocks') \subseteq {h}
            /\ brk' \in {pre.brk, pre.brk - (HeaderSize + pre.blocks[h].size)}
            /\ (/\ block[t] + pre.blocks[h].size = pre.brk
                /\ pre.head # pre.tail
                /\ pre.blocks[Pred(pre, h)].is_free) =>
                    LET p == Pred(pre, h)
                    IN  /\ DOMAIN blocks' = DOMAIN pre.blocks \ {h}
                        /\ tail' = p
                        /\ blocks'[p].is_free
                        /\ blocks'[p].size = pre.blocks[p].size
                        /\ brk' = Payload(p) + blocks'[p].size]_vars

\* a release has just shrunk the region and the block left at its end is a free
\* block, behind another block
C17_Witness ==
    \E t \in Threads :
        /\ pc[t] = "done" /\ exitp[t] = "shrunk"
        /\ tail # NULL /\ tail # head
        /\ blocks[tail].is_free
        /\ Payload(tail) + blocks[tail].size = brk

\* C18: a release of a live block that does not end where the region ends
\* changes that block's is_free to true and nothing else: head, tail, every
\* next, every size, every other is_free and the boundary stay as they were.
C18_InteriorReleaseFrame ==
    [][\A t \in Threads :
         (/\ FreeDone(t)
          /\ block[t] + pre.blocks[HeaderOf(block[t])].size # pre.brk) =>
            /\ ~pre.blocks[HeaderOf(block[t])].is_free
            /\ blocks' = [pre.blocks EXCEPT ![HeaderOf(block[t])].is_free = TRUE]
            /\ head' = pre.head
            /\ tail' = pre.tail
            /\ brk' = pre.brk
            /\ mem' = mem]_vars

\* a block between the first and the last block of the registry has just been
\* released while both of its neighbours are live
C18_Witness ==
    \E t \in Threads :
        /\ pc[t] = "done" /\ exitp[t] = "marked"
        /\ \E a \in DOMAIN blocks :
            /\ a # head /\ a # tail
            /\ blocks[a].is_free
            /\ ~blocks[head].is_free /\ ~blocks[tail].is_free

\* C19: when no block of the registry is free with a size of at least s,
\* allocate(s) reuses no block, also when free neighbours together span s
\* bytes: it extends the region and appends one block of size s, not free,
\* with an empty next, which becomes tail; the old tail's next points to it,
\* head is set to it only if the registry was empty, and every other header
\* stays as it was.
C19_NonCoalescingMiss ==
    [][\A t \in Threads :
         (/\ MallocDone(t)
          /\ \A a \in DOMAIN pre.blocks : ~Fits(pre.blocks[a], size[t])) =>
            /\ exitp'[t] \in {"grown", "oom"}
            /\ exitp'[t] = "grown" =>
                /\ ret'[t] = Payload(pre.brk)
                /\ brk' > pre.brk
                /\ tail' = pre.brk
                /\ head' = IF pre.head = NULL THEN pre.brk ELSE pre.head
                /\ blocks' = [a \in DOMAIN pre.blocks \cup {pre.brk} |->
                                IF a = pre.brk
                                THEN [size |-> size[t], is_free |-> FALSE, next |-> NULL]
                                ELSE IF a = pre.tail
                                THEN [pre.blocks[a] EXCEPT !.next = pre.brk]
                                ELSE pre.blocks[a]]]_vars

\* the blocks of the sequence r lie one behind the other from address a on
RECURSIVE Tiles(_, _)
Tiles(r, a) ==
    IF r = <<>> THEN a = brk
    ELSE /\ Head(r) = a
         /\ Tiles(Tail(r), Payload(a) + blocks[a].size)

\* C20: between calls the registry is a list without a cycle from head that
\* ends at tail, whose next is empty; head is empty exactly when tail is; every
\* block ends where the next block's header begins, so that the blocks tile the
\* region from its initial boundary to the boundary, and the block that ends at
\* the boundary is tail.
C20_RegistryShape ==
    lock = NULL =>
        /\ (head = NULL) = (tail = NULL)
        /\ Members(Registry) = DOMAIN blocks
        /\ Len(Registry) = Cardinality(DOMAIN blocks)
        /\ head # NULL =>
            /\ Registry[Len(Registry)] = tail
            /\ blocks[tail].next = NULL
        /\ Tiles(Registry, InitBrk)
        /\ \A a \in DOMAIN blocks : Payload(a) + blocks[a].size = brk => a = tail

\* three blocks tile the region between two calls, the one in the middle free
C20_Witness ==
    /\ lock = NULL /\ Quiet
    /\ Len(Registry) = 3
    /\ blocks[Registry[2]].is_free
    /\ ~blocks[head].is_free /\ ~blocks[tail].is_free
    /\ brk > InitBrk + 3 * HeaderSize
====
